---- MODULE Spec2Model ----
(***************************************************************************)
(* Model of the Nexora MVP pipeline (src/backend):                         *)
(*   - MVPNexoraAgent.build_mvp and its build-test-fix loop                *)
(*     (_auto_fix_loop, _analyze_error, _apply_fix, BuildTestManager),     *)
(*   - the streaming file extractor of stream_mvp_generation.              *)
(* Text is modelled as sequences of one-character strings so that the      *)
(* substring tests of the code are computed, not assumed.                  *)
(***************************************************************************)
EXTENDS Integers, Sequences, FiniteSets, TLC

\* ------------------------------------------------------------------------
\* Bounds of the model
\* ------------------------------------------------------------------------
\* largest max_iterations handed to _auto_fix_loop when it is called directly
MaxBudget == 3
\* largest number of enhance_file calls that succeed in one run
MaxRewrites == 2
\* largest number of tokens in a streamed text
MaxTokens == 4
MaxFiles == 2
MaxCreates == 2
MaxSpans == 3
MaxChunks == 2

\* ------------------------------------------------------------------------
\* Program constants
\* ------------------------------------------------------------------------
max_fix_iterations_free == 3
max_fix_iterations_pro == 15

SUCCESS == "success"
FAILED == "failed"

\* ------------------------------------------------------------------------
\* Text helpers (str.__contains__, str.lower, str.split)
\* ------------------------------------------------------------------------
\* pattern in word  (both are sequences of characters)
Contains(word, pattern) ==
    \E i \in 0..(Len(word) - Len(pattern)) :
        \A k \in 1..Len(pattern) : word[i + k] = pattern[k]

\* str.lower(), on the upper-case letters the texts of the model use
LowerChar(c) ==
    CASE c = "F" -> "f"
      [] c = "I" -> "i"
      [] c = "L" -> "l"
      [] c = "E" -> "e"
      [] OTHER -> c

Lower(word) == [k \in 1..Len(word) |-> LowerChar(word[k])]

\* A line is held as line.split(): its sequence of whitespace-free words.
\* The patterns looked for in a line ('file', '.js', '.py') hold no
\* whitespace, so they occur in the line iff they occur in one of its words.
LineContains(line, pattern) ==
    \E w \in 1..Len(line) : Contains(line[w], pattern)

LineLowerContains(line, pattern) ==
    \E w \in 1..Len(line) : Contains(Lower(line[w]), pattern)

\* ------------------------------------------------------------------------
\* Paths of the workspace and texts the diagnosis model can return
\* ------------------------------------------------------------------------
package_json == <<"p","a","c","k","a","g","e",".","j","s","o","n">>
requirements_txt == <<"r","e","q","u","i","r","e","m","e","n","t","s",".","t","x","t">>
src_app_js == <<"s","r","c","/","a","p","p",".","j","s">>
docs_x_js == <<"d","o","c","s","/","x",".","j","s">>
lib_util_ts == <<"l","i","b","/","u",".","t","s">>
src_gone_py == <<"s","r","c","/","g",".","p","y">>

NoFile == <<>>

w_File == <<"F","i","l","e",":">>
w_see == <<"s","e","e">>
w_fix == <<"f","i","x">>
w_Unable == <<"U","n","a","b","l","e">>

\* "Unable to analyze error", the text _analyze_error returns when the call fails
UnableToAnalyze == << <<w_Unable>> >>

\* the texts the diagnosis call may answer with
ModelTexts ==
    { UnableToAnalyze,
      << <<w_File, src_app_js>> >>,
      << <<w_File, src_app_js>>, <<w_see, docs_x_js>> >>,
      << <<w_see, docs_x_js>>, <<w_File, src_app_js>> >>,
      << <<w_fix, lib_util_ts>> >>,
      << <<w_File, src_gone_py, src_app_js>> >> }

NoText == <<>>

\* the file sets generate_project_structure may produce
Workspaces ==
    { {},
      {requirements_txt},
      {package_json, requirements_txt, src_app_js} }

\* ------------------------------------------------------------------------
\* Records
\* ------------------------------------------------------------------------
\* BuildInfo; status "None" stands for the Python None.  stage and iteration
\* record which call produced the record.
NoBuild == [status |-> "None", stage |-> "none", iteration |-> 0]

BuildInfo(status, stage, it) ==
    [status |-> status, stage |-> stage, iteration |-> it]

\* TestInfo; status "None" stands for the Python None
NoTest == [status |-> "None", details |-> "none", passed |-> 0, failed |-> 0,
           total |-> 0]

TestInfo(status, details, passed, failed) ==
    [status |-> status, details |-> details, passed |-> passed,
     failed |-> failed, total |-> passed + failed]

\* the record substituted at the end of the loop when test_info is None
DefaultTestInfo == TestInfo(FAILED, "Build failed before tests could run", 0, 0)

\* a record stamped with the number of the following iteration
PatchInfo_next(it, file) == [iteration |-> it + 1, file |-> file]

\* a record that carries the number of the first iteration whatever the
\* current one is
PatchInfo_first(it, file) == [iteration |-> 1, file |-> file]

PatchInfo(it, file) == [iteration |-> it, file |-> file]

\* current_file = None
NoCurrent == [path |-> "", language |-> "", start_index |-> 0, open_at |-> 0]

VARIABLES
    pc,                \* position of build_mvp / _auto_fix_loop
    user_subscription, \* argument of build_mvp ("direct" for a direct loop call)
    max_iterations,    \* argument of _auto_fix_loop
    files,             \* paths present under project_dir
    iteration,         \* loop variable of _auto_fix_loop
    stage,             \* the stage that failed last ("none" if none has)
    build_info,
    test_info,
    patches,
    error_analysis,    \* text handed from _analyze_error to _apply_fix
    loop_exit,         \* which return of _auto_fix_loop was taken
    rewrites,          \* number of files overwritten by _apply_fix
    green,             \* first iteration whose install, build and test all passed
    tests_ran,         \* run_tests has been called in this run
    test_iteration,    \* the iteration of the latest run_tests call (0 if none)
    only_pathless,     \* every diagnosis so far had no word with '.' and '/'
    artifact_zip,      \* result of _create_zip_artifact
    preview_url        \* result of _deploy_to_e2b

\* state of one generate_stream call of stream_mvp_generation
VARIABLES
    stream,            \* the text the model will stream, as symbols
    pos,               \* number of symbols of stream delivered so far
    stream_pc,         \* position of generate_stream
    content_buffer,
    current_file,
    files_created,
    events             \* the events yielded so far

\* state of one extract_packages_from_files call
VARIABLES
    det_pc,            \* position of the call
    det_files,         \* the files argument, in insertion order
    det_packages       \* the list returned

\* state of the sandbox calls of MVPBuilderAgent and E2BSandboxClient
VARIABLES
    calls,             \* per caller: the call in progress and its last result
    active_sandboxes,  \* self.active_sandboxes: tracked id -> files
    creates_issued,    \* POST /sandboxes requests sent so far
    sandboxes_created  \* sandboxes the provider has created so far

\* state of one _parse_generated_code call
VARIABLES
    parse_pc,          \* position of the call
    generated_code,    \* the code argument, as symbols
    parsed_files       \* the dict files

\* state of one streaming get_ai_response call
VARIABLES
    ai_pc,             \* position of the innermost get_ai_response generator
    ai_model,          \* its model argument
    api_keys,          \* the providers whose API key is configured
    tried,             \* the model arguments of the nested calls, outermost first
    yielded            \* per chunk delivered to the consumer, its provider

buildVars == <<pc, user_subscription, max_iterations, files, iteration, stage,
               build_info, test_info, patches, error_analysis, loop_exit,
               rewrites, green, tests_ran, test_iteration, only_pathless,
               artifact_zip, preview_url>>

streamVars == <<stream, pos, stream_pc, content_buffer, current_file,
                files_created, events>>

detectVars == <<det_pc, det_files, det_packages>>

agentVars == <<calls, active_sandboxes, creates_issued, sandboxes_created>>

parseVars == <<parse_pc, generated_code, parsed_files>>

providerVars == <<ai_pc, ai_model, api_keys, tried, yielded>>

vars == <<buildVars, streamVars, detectVars, agentVars, parseVars,
          providerVars>>

\* ------------------------------------------------------------------------
\* BuildTestManager
\* ------------------------------------------------------------------------
HasPackageJson == package_json \in files
HasRequirements == requirements_txt \in files

\* install_dependencies: npm ci when package.json exists, then pip install
\* when requirements.txt exists; the first non-zero exit code fails the stage
InstallStatus(npm_ok, pip_ok) ==
    IF HasPackageJson /\ ~npm_ok THEN FAILED
    ELSE IF HasRequirements /\ ~pip_ok THEN FAILED
    ELSE SUCCESS

\* build_project: npm run build when package.json exists
BuildStatusOf(build_ok) ==
    IF HasPackageJson /\ ~build_ok THEN FAILED ELSE SUCCESS

\* run_tests: npm run test when package.json exists
RunTests(test_ok) ==
    IF HasPackageJson
    THEN IF test_ok THEN TestInfo(SUCCESS, "npm test", 1, 0)
                    ELSE TestInfo(FAILED, "npm test", 0, 1)
    ELSE TestInfo(SUCCESS, "[]", 0, 0)

\* ------------------------------------------------------------------------
\* _apply_fix: the file named by the diagnosis
\* ------------------------------------------------------------------------
\* if 'file' in line.lower() or '.js' in line or '.py' in line
LineSelected(line) ==
    \/ LineLowerContains(line, <<"f","i","l","e">>)
    \/ LineContains(line, <<".","j","s">>)
    \/ LineContains(line, <<".","p","y">>)

\* if '.' in word and '/' in word
PathLike(word) == Contains(word, <<".">>) /\ Contains(word, <<"/">>)

\* the inner loop over the words of one line: the first path-like word is
\* assigned and the inner loop is left; without one, file_to_fix is kept
ScanWords(line, file_to_fix) ==
    IF \E w \in 1..Len(line) : PathLike(line[w])
    THEN line[CHOOSE w \in 1..Len(line) :
                 /\ PathLike(line[w])
                 /\ \A v \in 1..(w - 1) : ~PathLike(line[v])]
    ELSE file_to_fix

\* the outer loop over the lines; it runs to the last line
RECURSIVE ScanLines(_, _, _)
ScanLines(lines, n, file_to_fix) ==
    IF n > Len(lines) THEN file_to_fix
    ELSE ScanLines(lines, n + 1,
                   IF LineSelected(lines[n])
                   THEN ScanWords(lines[n], file_to_fix)
                   ELSE file_to_fix)

\* a scan that falls back to a default target when no line names a file
FileToFix_default(analysis) ==
    IF ScanLines(analysis, 1, NoFile) = NoFile THEN src_app_js
    ELSE ScanLines(analysis, 1, NoFile)

FileToFix(analysis) == ScanLines(analysis, 1, NoFile)

\* no word of the text holds both '.' and '/'
Pathless(analysis) ==
    \A l \in 1..Len(analysis) : \A w \in 1..Len(analysis[l]) :
        ~PathLike(analysis[l][w])

\* ------------------------------------------------------------------------
\* _auto_fix_loop
\* ------------------------------------------------------------------------
\* the loop without the substitution of a missing test_info
LoopNext_keepNone(ti) ==
    IF iteration < max_iterations
    THEN /\ iteration' = iteration + 1
         /\ pc' = "install"
         /\ loop_exit' = loop_exit
         /\ test_info' = ti
    ELSE /\ iteration' = iteration
         /\ pc' = "loop_returned"
         /\ loop_exit' = "exhausted"
         /\ test_info' = ti

\* for iteration in range(1, max_iterations + 1): the next iteration, or the
\* code after the loop when the range is exhausted; ti is the current test_info
LoopNext(ti) ==
    IF iteration < max_iterations
    THEN /\ iteration' = iteration + 1
         /\ pc' = "install"
         /\ loop_exit' = loop_exit
         /\ test_info' = ti
    ELSE /\ iteration' = iteration
         /\ pc' = "loop_returned"
         /\ loop_exit' = "exhausted"
         /\ test_info' = IF ti.status = "None" THEN DefaultTestInfo ELSE ti

\* the success branch without its return: the loop goes on
ReturnSuccess_continue(ti) == LoopNext(ti)

\* return build_info, test_info, patches  of the success branch
ReturnSuccess(ti) ==
    /\ iteration' = iteration
    /\ pc' = "loop_returned"
    /\ loop_exit' = "success"
    /\ test_info' = ti

\* entry of the loop: patches = [], build_info = None, test_info = None
LoopEnter ==
    /\ pc = "loop"
    /\ LoopNext(test_info)
    /\ UNCHANGED <<user_subscription, max_iterations, files, stage, build_info,
                   patches, error_analysis, rewrites, green, tests_ran, test_iteration,
                   only_pathless, artifact_zip, preview_url>>
    /\ UNCHANGED <<streamVars, detectVars, agentVars, parseVars, providerVars>>

\* the stage st of this iteration failed: diagnosis is next
StageFailed(st) ==
    /\ pc' = "diagnose"
    /\ stage' = st

install_dependencies ==
    /\ pc = "install"
    /\ \E npm_ok \in BOOLEAN, pip_ok \in BOOLEAN :
         LET st == InstallStatus(npm_ok, pip_ok) IN
         /\ build_info' = BuildInfo(st, "install", iteration)
         /\ IF st = FAILED
            THEN StageFailed("install")
            ELSE pc' = "build" /\ UNCHANGED stage
    /\ UNCHANGED <<user_subscription, max_iterations, files, iteration,
                   test_info, patches, error_analysis, loop_exit, rewrites,
                   green, tests_ran, test_iteration, only_pathless,
                   artifact_zip, preview_url>>
    /\ UNCHANGED <<streamVars, detectVars, agentVars, parseVars, providerVars>>

\* the build stage without the test of its status: tests always follow
build_project_ungated ==
    /\ pc = "build"
    /\ \E build_ok \in BOOLEAN :
         build_info' = BuildInfo(BuildStatusOf(build_ok), "build", iteration)
    /\ pc' = "test"
    /\ UNCHANGED <<user_subscription, max_iterations, files, iteration, stage,
                   test_info, patches, error_analysis, loop_exit, rewrites,
                   green, tests_ran, test_iteration, only_pathless,
                   artifact_zip, preview_url>>
    /\ UNCHANGED <<streamVars, detectVars, agentVars, parseVars, providerVars>>

build_project ==
    /\ pc = "build"
    /\ \E build_ok \in BOOLEAN :
         LET st == BuildStatusOf(build_ok) IN
         /\ build_info' = BuildInfo(st, "build", iteration)
         /\ IF st = FAILED
            THEN StageFailed("build")
            ELSE pc' = "test" /\ UNCHANGED stage
    /\ UNCHANGED <<user_subscription, max_iterations, files, iteration,
                   test_info, patches, error_analysis, loop_exit, rewrites,
                   green, tests_ran, test_iteration, only_pathless,
                   artifact_zip, preview_url>>
    /\ UNCHANGED <<streamVars, detectVars, agentVars, parseVars, providerVars>>

\* the test stage with a status test that is always true: the fix is tried
\* after passing tests too
run_tests_alwaysFix ==
    /\ pc = "test"
    /\ \E test_ok \in BOOLEAN :
         /\ StageFailed("test")
         /\ test_info' = RunTests(test_ok)
         /\ UNCHANGED <<iteration, loop_exit, green>>
    /\ tests_ran' = TRUE
    /\ test_iteration' = iteration
    /\ UNCHANGED <<user_subscription, max_iterations, files, build_info,
                   patches, error_analysis, rewrites, only_pathless,
                   artifact_zip, preview_url>>
    /\ UNCHANGED <<streamVars, detectVars, agentVars, parseVars, providerVars>>

\* run_tests and, when they pass, the return of the success branch
run_tests ==
    /\ pc = "test"
    /\ \E test_ok \in BOOLEAN :
         LET ti == RunTests(test_ok) IN
         IF ti.status = FAILED
         THEN /\ StageFailed("test")
              /\ test_info' = ti
              /\ UNCHANGED <<iteration, loop_exit, green>>
         ELSE /\ ReturnSuccess(ti)
              /\ green' = IF green = 0 THEN iteration ELSE green
              /\ UNCHANGED stage
    /\ tests_ran' = TRUE
    /\ test_iteration' = iteration
    /\ UNCHANGED <<user_subscription, max_iterations, files, build_info,
                   patches, error_analysis, rewrites, only_pathless,
                   artifact_zip, preview_url>>
    /\ UNCHANGED <<streamVars, detectVars, agentVars, parseVars, providerVars>>

\* _analyze_error (_analyze_test_failures for the test stage): the answer of
\* the model, or "Unable to analyze error" when the call raises
analyze_error ==
    /\ pc = "diagnose"
    /\ \E call_ok \in BOOLEAN, text \in ModelTexts :
         LET answer == IF call_ok THEN text ELSE UnableToAnalyze IN
         /\ error_analysis' = answer
         /\ only_pathless' = (only_pathless /\ Pathless(answer))
    /\ pc' = "patch"
    /\ UNCHANGED <<user_subscription, max_iterations, files, iteration, stage,
                   build_info, test_info, patches, loop_exit, rewrites, green,
                   tests_ran, test_iteration, artifact_zip, preview_url>>
    /\ UNCHANGED <<streamVars, detectVars, agentVars, parseVars, providerVars>>

\* _apply_fix: TRUE when the file is overwritten and a PatchInfo returned,
\* FALSE for each return None (no target, target missing, enhance_file raised)
FixApplies(analysis, enhance_ok) ==
    /\ FileToFix(analysis) # NoFile
    /\ FileToFix(analysis) \in files
    /\ enhance_ok

\* the failure branches without their continue: the next stage of the same
\* iteration runs after the patch
AfterFix_fallthrough ==
    IF stage = "test" THEN LoopNext(test_info)
    ELSE /\ pc' = (IF stage = "install" THEN "build" ELSE "test")
         /\ UNCHANGED <<iteration, loop_exit, test_info>>

\* after _apply_fix: if patch: patches.append(patch), then continue
AfterFix == LoopNext(test_info)

\* _apply_fix as the loop calls it, for the failed stage of this iteration
apply_fix ==
    /\ pc = "patch"
    /\ \E enhance_ok \in (IF rewrites < MaxRewrites THEN BOOLEAN ELSE {FALSE}) :
         IF FixApplies(error_analysis, enhance_ok)
         THEN /\ patches' = Append(patches,
                                   PatchInfo(iteration, FileToFix(error_analysis)))
              /\ rewrites' = rewrites + 1
         ELSE UNCHANGED <<patches, rewrites>>
    /\ error_analysis' = NoText
    /\ AfterFix
    /\ UNCHANGED <<user_subscription, max_iterations, files, stage, build_info,
                   green, tests_ran, test_iteration, only_pathless,
                   artifact_zip, preview_url>>
    /\ UNCHANGED <<streamVars, detectVars, agentVars, parseVars, providerVars>>

\* ------------------------------------------------------------------------
\* build_mvp
\* ------------------------------------------------------------------------
Subscriptions == {"free", "pro"}

\* the two budgets exchanged
BudgetFor_swapped(subscription) ==
    IF subscription = "pro" THEN max_fix_iterations_free
    ELSE max_fix_iterations_pro

\* max_iterations = pro budget if user_subscription == "pro" else free budget
BudgetFor(subscription) ==
    IF subscription = "pro" THEN max_fix_iterations_pro
    ELSE max_fix_iterations_free

\* generate_project_structure: the file map of the model's answer ({} when the
\* answer holds no JSON); a failing call or unparsable JSON is re-raised and
\* build_mvp does not catch it
generate_project_structure ==
    /\ pc = "generate"
    /\ \E call_ok \in BOOLEAN, generated \in Workspaces :
         IF call_ok
         THEN pc' = "create_files" /\ files' = generated
         ELSE pc' = "raised" /\ files' = files
    /\ UNCHANGED <<user_subscription, max_iterations, iteration, stage,
                   build_info, test_info, patches, error_analysis, loop_exit,
                   rewrites, green, tests_ran, test_iteration, only_pathless,
                   artifact_zip, preview_url>>
    /\ UNCHANGED <<streamVars, detectVars, agentVars, parseVars, providerVars>>

\* _create_project_files, BuildTestManager(project_dir) and the choice of
\* max_iterations
create_project_files ==
    /\ pc = "create_files"
    /\ max_iterations' = BudgetFor(user_subscription)
    /\ pc' = "loop"
    /\ UNCHANGED <<user_subscription, files, iteration, stage, build_info,
                   test_info, patches, error_analysis, loop_exit, rewrites,
                   green, tests_ran, test_iteration, only_pathless, artifact_zip,
                   preview_url>>
    /\ UNCHANGED <<streamVars, detectVars, agentVars, parseVars, providerVars>>

\* packaging whose I/O failure is not caught: it leaves build_mvp
create_zip_artifact_raises ==
    /\ pc = "loop_returned"
    /\ \E io_ok \in BOOLEAN :
         IF io_ok
         THEN artifact_zip' = "file://artifact.zip" /\ pc' = "deploy"
         ELSE artifact_zip' = artifact_zip /\ pc' = "raised"
    /\ UNCHANGED <<user_subscription, max_iterations, files, iteration, stage,
                   build_info, test_info, patches, error_analysis, loop_exit,
                   rewrites, green, tests_ran, test_iteration, only_pathless,
                   preview_url>>
    /\ UNCHANGED <<streamVars, detectVars, agentVars, parseVars, providerVars>>

\* _create_zip_artifact: the file:// reference, or "" when zipping raised
create_zip_artifact ==
    /\ pc = "loop_returned"
    /\ \E io_ok \in BOOLEAN :
         artifact_zip' = IF io_ok THEN "file://artifact.zip" ELSE ""
    /\ pc' = "deploy"
    /\ UNCHANGED <<user_subscription, max_iterations, files, iteration, stage,
                   build_info, test_info, patches, error_analysis, loop_exit,
                   rewrites, green, tests_ran, test_iteration, only_pathless,
                   preview_url>>
    /\ UNCHANGED <<streamVars, detectVars, agentVars, parseVars, providerVars>>

\* _deploy_to_e2b: the preview address, or "" when any sandbox call raised
deploy_to_e2b ==
    /\ pc = "deploy"
    /\ \E e2b_ok \in BOOLEAN :
         preview_url' = IF e2b_ok THEN "https://sandbox.e2b.dev:3000" ELSE ""
    /\ pc' = "respond"
    /\ UNCHANGED <<user_subscription, max_iterations, files, iteration, stage,
                   build_info, test_info, patches, error_analysis, loop_exit,
                   rewrites, green, tests_ran, test_iteration, only_pathless,
                   artifact_zip>>
    /\ UNCHANGED <<streamVars, detectVars, agentVars, parseVars, providerVars>>

\* next_steps reads build_info.status and test_info.passed, then the
\* WinsurfResponse is built and returned; build_info = None raises here
respond ==
    /\ pc = "respond"
    /\ pc' = IF build_info.status = "None" THEN "raised" ELSE "returned"
    /\ UNCHANGED <<user_subscription, max_iterations, files, iteration, stage,
                   build_info, test_info, patches, error_analysis, loop_exit,
                   rewrites, green, tests_ran, test_iteration, only_pathless,
                   artifact_zip, preview_url>>
    /\ UNCHANGED <<streamVars, detectVars, agentVars, parseVars, providerVars>>

\* no generate_stream call is in progress
StreamIdle ==
    /\ stream = <<>>
    /\ pos = 0
    /\ stream_pc = "idle"
    /\ content_buffer = <<>>
    /\ current_file = NoCurrent
    /\ files_created = 0
    /\ events = <<>>

\* no extract_packages_from_files call is in progress
DetectIdle ==
    /\ det_pc = "idle"
    /\ det_files = <<>>
    /\ det_packages = <<>>

\* no sandbox exists and no sandbox call has been made
AgentIdle ==
    /\ calls = <<>>
    /\ active_sandboxes = <<>>
    /\ creates_issued = 0
    /\ sandboxes_created = 0

\* no _parse_generated_code call is in progress
ParseIdle ==
    /\ parse_pc = "idle"
    /\ generated_code = <<>>
    /\ parsed_files = {}

\* no get_ai_response call is in progress
ProviderIdle ==
    /\ ai_pc = "idle"
    /\ ai_model = "none"
    /\ api_keys = {}
    /\ tried = <<>>
    /\ yielded = <<>>

\* state shared by every entry point before the loop has run
LoopFresh ==
    /\ iteration = 0
    /\ stage = "none"
    /\ build_info = NoBuild
    /\ test_info = NoTest
    /\ patches = <<>>
    /\ error_analysis = NoText
    /\ loop_exit = "none"
    /\ rewrites = 0
    /\ green = 0
    /\ tests_ran = FALSE
    /\ test_iteration = 0
    /\ only_pathless = TRUE
    /\ artifact_zip = ""
    /\ preview_url = ""

Init ==
    /\ pc = "generate"
    /\ user_subscription \in Subscriptions
    /\ max_iterations = 0
    /\ files = {}
    /\ LoopFresh
    /\ StreamIdle
    /\ DetectIdle
    /\ AgentIdle
    /\ ParseIdle
    /\ ProviderIdle

LoopStep ==
    \/ LoopEnter
    \/ install_dependencies
    \/ build_project
    \/ run_tests
    \/ analyze_error
    \/ apply_fix

Next ==
    \/ generate_project_structure
    \/ create_project_files
    \/ LoopStep
    \/ create_zip_artifact
    \/ deploy_to_e2b
    \/ respond

Spec == Init /\ [][Next]_vars

\* ------------------------------------------------------------------------
\* Direct calls of _auto_fix_loop
\* ------------------------------------------------------------------------
InitLoop ==
    /\ pc = "loop"
    /\ user_subscription = "direct"
    /\ max_iterations \in 0..MaxBudget
    /\ files \in Workspaces
    /\ LoopFresh
    /\ StreamIdle
    /\ DetectIdle
    /\ AgentIdle
    /\ ParseIdle
    /\ ProviderIdle

NextLoop == LoopStep

SpecLoop == InitLoop /\ [][NextLoop]_vars

\* ------------------------------------------------------------------------
\* Streaming file extractor: generate_stream of stream_mvp_generation
\* ------------------------------------------------------------------------
\* The streamed text is a sequence of symbols, each a literal piece of text.
\* An open marker is three symbols and a close marker two, so that a chunk
\* boundary can fall inside a marker.
FILE_OPEN == "<file path=\""
QUOTE_GT == "\">"
CLOSE_LT == "</"
CLOSE_GT == "file>"
BLANK == " "

Paths == {"a.js", "b.yml"}

OpenMarker(path) == <<FILE_OPEN, path, QUOTE_GT>>
CloseMarker == <<CLOSE_LT, CLOSE_GT>>

\* the pieces a streamed text is made of
Tokens == {OpenMarker(p) : p \in Paths} \cup {CloseMarker, <<"x">>, <<BLANK>>}

RECURSIVE Flatten(_)
Flatten(ts) == IF ts = <<>> THEN <<>> ELSE Head(ts) \o Flatten(Tail(ts))

\* the texts the model may stream: up to MaxTokens tokens
Streams == {Flatten(ts) : ts \in UNION {[1..n -> Tokens] : n \in 0..MaxTokens}}

\* ext = file_path.split('.')[-1].lower(), on the paths of the model
ExtOf(path) ==
    CASE path = "a.js" -> "js"
      [] path = "b.yml" -> "yml"
      [] OTHER -> path

\* language_map.get(ext, 'plaintext')
LanguageOf(ext) ==
    CASE ext \in {"js", "jsx"} -> "javascript"
      [] ext \in {"ts", "tsx"} -> "typescript"
      [] ext = "py" -> "python"
      [] ext = "html" -> "html"
      [] ext = "css" -> "css"
      [] ext = "json" -> "json"
      [] ext = "md" -> "markdown"
      [] OTHER -> "plaintext"

\* symbols that hold a double quote
HasQuote(sym) == sym \in {FILE_OPEN, QUOTE_GT}

\* file_start_pattern = <file path="([^"]+)"> matches at index i.  In a text
\* made of Tokens the group is the one symbol after FILE_OPEN.
MatchesAt(buf, i) ==
    /\ i + 2 <= Len(buf)
    /\ buf[i] = FILE_OPEN
    /\ ~HasQuote(buf[i + 1])
    /\ buf[i + 2] = QUOTE_GT

HasMatch(buf) == \E i \in 1..Len(buf) : MatchesAt(buf, i)

\* file_start_pattern.search: the leftmost match
MatchStart(buf) ==
    CHOOSE i \in 1..Len(buf) :
        MatchesAt(buf, i) /\ \A h \in 1..(i - 1) : ~MatchesAt(buf, h)

\* '</file>' in content_buffer
HasClose(buf) == Contains(buf, CloseMarker)

\* content_buffer.index('</file>'), as the 1-based index of CLOSE_LT
CloseIndex(buf) ==
    CHOOSE k \in 1..(Len(buf) - 1) :
        /\ buf[k] = CLOSE_LT /\ buf[k + 1] = CLOSE_GT
        /\ \A h \in 1..(k - 1) : ~(buf[h] = CLOSE_LT /\ buf[h + 1] = CLOSE_GT)

\* str.strip() for the whitespace of the model
RECURSIVE LStrip(_)
LStrip(text) ==
    IF text # <<>> /\ Head(text) = BLANK THEN LStrip(Tail(text)) ELSE text

RECURSIVE RStrip(_)
RStrip(text) ==
    IF text # <<>> /\ text[Len(text)] = BLANK
    THEN RStrip(SubSeq(text, 1, Len(text) - 1))
    ELSE text

Strip(text) == RStrip(LStrip(text))

\* Python slice text[from:to] with 0-based bounds
Slice(text, from, to) ==
    IF to <= from THEN <<>> ELSE SubSeq(text, from + 1, to)

\* an event yielded to the client.  open_at is the position in the whole
\* stream where the file's open marker ends; it is not part of the event.
Event(type, path, language, content, count, open_at) ==
    [type |-> type, path |-> path, language |-> language,
     content |-> content, count |-> count, open_at |-> open_at]

\* lines 730-753: detection of an open marker
DetectStart(st) ==
    IF /\ st.current_file = NoCurrent
       /\ Contains(st.content_buffer, <<FILE_OPEN>>)
       /\ HasMatch(st.content_buffer)
    THEN LET i == MatchStart(st.content_buffer)
             file_path == st.content_buffer[i + 1]
             language == LanguageOf(ExtOf(file_path))
             open_at == st.dropped + i + 2
         IN [st EXCEPT
               !.current_file = [path |-> file_path, language |-> language,
                                 start_index |-> i + 2, open_at |-> open_at],
               !.events = Append(@, Event("processing", file_path, language,
                                          <<>>, 0, open_at))]
    ELSE st

\* lines 756-785: completion of the current file; push_ok tells whether the
\* awaited update_sandbox_file call returned (TRUE) or raised (FALSE)
DetectEnd(st, push_ok) ==
    IF st.current_file # NoCurrent /\ HasClose(st.content_buffer)
    THEN LET end_tag_index == CloseIndex(st.content_buffer) - 1
             cf == st.current_file
             file_content == Strip(Slice(st.content_buffer, cf.start_index,
                                         end_tag_index))
         IN [st EXCEPT
               !.events =
                   IF push_ok
                   THEN @ \o << Event("completed", cf.path, cf.language,
                                      file_content, 0, cf.open_at),
                                Event("status", "", "", <<>>,
                                      st.files_created + 1, 0) >>
                   ELSE Append(@, Event("file_error", cf.path, "", <<>>, 0,
                                        cf.open_at)),
               !.files_created = IF push_ok THEN @ + 1 ELSE @,
               !.content_buffer = Slice(@, end_tag_index + 2, Len(@)),
               !.dropped = @ + end_tag_index + 2,
               !.current_file = NoCurrent]
    ELSE st

\* the body of the async for, run once per chunk
ProcessChunk(st, chunk, push_ok) ==
    DetectEnd(DetectStart([st EXCEPT !.content_buffer = @ \o chunk]), push_ok)

\* the extractor state as a record; dropped is the number of symbols already
\* removed from the front of content_buffer
ExtractorState ==
    [content_buffer |-> content_buffer, current_file |-> current_file,
     files_created |-> files_created, events |-> events,
     dropped |-> pos - Len(content_buffer)]

\* lines 716-719
FreshExtractor ==
    [content_buffer |-> <<>>, current_file |-> NoCurrent, files_created |-> 0,
     events |-> <<>>, dropped |-> 0]

\* lines 684-701: the sandbox is created before generation starts; a raising
\* call ends the stream with an error event
create_sandbox ==
    /\ stream_pc = "sandbox"
    /\ \E ok \in BOOLEAN :
         IF ok
         THEN /\ stream_pc' = "streaming"
              /\ events' = events
         ELSE /\ stream_pc' = "error"
              /\ events' = Append(events, Event("error", "", "", <<>>, 0, 0))
    /\ UNCHANGED <<stream, pos, content_buffer, current_file, files_created>>
    /\ UNCHANGED <<buildVars, detectVars, agentVars, parseVars, providerVars>>

\* one iteration of the async for: the next chunk of the stream arrives
receive_chunk ==
    /\ stream_pc = "streaming"
    /\ pos < Len(stream)
    /\ \E n \in 1..(Len(stream) - pos), push_ok \in BOOLEAN :
         LET st == ProcessChunk(ExtractorState,
                                SubSeq(stream, pos + 1, pos + n), push_ok)
         IN /\ pos' = pos + n
            /\ content_buffer' = st.content_buffer
            /\ current_file' = st.current_file
            /\ files_created' = st.files_created
            /\ events' = st.events
    /\ UNCHANGED <<stream, stream_pc>>
    /\ UNCHANGED <<buildVars, detectVars, agentVars, parseVars, providerVars>>

\* line 788: the generator is exhausted and the summary is sent
end_of_stream ==
    /\ stream_pc = "streaming"
    /\ pos = Len(stream)
    /\ stream_pc' = "complete"
    /\ events' = Append(events, Event("complete", "", "", <<>>, files_created, 0))
    /\ UNCHANGED <<stream, pos, content_buffer, current_file, files_created>>
    /\ UNCHANGED <<buildVars, detectVars, agentVars, parseVars, providerVars>>

\* lines 790-792: get_ai_response raised; the stream ends with an error event
provider_error ==
    /\ stream_pc = "streaming"
    /\ stream_pc' = "error"
    /\ events' = Append(events, Event("error", "", "", <<>>, 0, 0))
    /\ UNCHANGED <<stream, pos, content_buffer, current_file, files_created>>
    /\ UNCHANGED <<buildVars, detectVars, agentVars, parseVars, providerVars>>

\* no build_mvp call is in progress
BuildIdle ==
    /\ pc = "idle"
    /\ user_subscription = "none"
    /\ max_iterations = 0
    /\ files = {}
    /\ LoopFresh

InitStream ==
    /\ BuildIdle
    /\ stream \in Streams
    /\ pos = 0
    /\ stream_pc = "sandbox"
    /\ content_buffer = <<>>
    /\ current_file = NoCurrent
    /\ files_created = 0
    /\ events = <<>>
    /\ DetectIdle
    /\ AgentIdle
    /\ ParseIdle
    /\ ProviderIdle

NextStream ==
    \/ create_sandbox
    \/ receive_chunk
    \/ end_of_stream
    \/ provider_error

SpecStream == InitStream /\ [][NextStream]_vars

FairSpecLoop == SpecLoop /\ WF_vars(NextLoop)

\* ------------------------------------------------------------------------
\* Properties of the streaming extractor
\* ------------------------------------------------------------------------
CompletedIdx == {i \in 1..Len(events) : events[i].type = "completed"}

\* indices of the events of files handed to update_sandbox_file
PushedIdx == {i \in 1..Len(events) : events[i].type \in {"completed", "file_error"}}

\* the (path, content, language) set of the completed events of a run
CompletedFiles(evs) ==
    {[path |-> evs[i].path, content |-> evs[i].content,
      language |-> evs[i].language] :
        i \in {k \in 1..Len(evs) : evs[k].type = "completed"}}

\* a close marker lies in stream after position o and wholly before upto + 1
ClosedAfter(o, upto) ==
    \E k \in (o + 1)..(upto - 1) :
        stream[k] = CLOSE_LT /\ stream[k + 1] = CLOSE_GT

\* the first position after o where a close marker starts
FirstCloseAfter(o) ==
    CHOOSE k \in (o + 1)..(Len(stream) - 1) :
        /\ stream[k] = CLOSE_LT /\ stream[k + 1] = CLOSE_GT
        /\ \A h \in (o + 1)..(k - 1) :
               ~(stream[h] = CLOSE_LT /\ stream[h + 1] = CLOSE_GT)

\* end positions of the open markers of stream that no close marker follows
UnclosedOpens ==
    {o \in 3..Len(stream) :
        /\ stream[o] = QUOTE_GT
        /\ stream[o - 2] = FILE_OPEN
        /\ ~ClosedAfter(o, Len(stream))}

InLoopBody == pc \in {"install", "build", "test", "diagnose", "patch"}

\* C1: once install, build and test have all passed in an iteration k, the
\* loop has returned success at that very iteration: the loop variable stays
\* at k (no later iteration is entered, whatever budget is left), no stage,
\* diagnosis or patch step is pending, and the records returned are those of
\* iteration k.
C1_SuccessReturnsAtOnce ==
    green # 0 =>
        /\ ~InLoopBody
        /\ loop_exit = "success"
        /\ iteration = green
        /\ iteration <= max_iterations
        /\ build_info = BuildInfo(SUCCESS, "build", green)
        /\ test_info.status = SUCCESS
        /\ error_analysis = NoText

C1_Witness ==
    /\ green = 2
    /\ max_iterations = 3
    /\ loop_exit = "success"
    /\ pc = "loop_returned"

\* C2: a run in which no iteration passes ends exhausted; an exhausted run
\* has executed exactly max_iterations iterations, returns the build record of
\* the last iteration, and returns the synthesized failed record with
\* passed = failed = total = 0 when run_tests was never called.
C2_ExhaustedResult ==
    /\ (pc = "loop_returned" /\ green = 0) => loop_exit = "exhausted"
    /\ loop_exit = "exhausted" =>
        /\ iteration = max_iterations
        /\ green = 0
        /\ max_iterations >= 1 =>
             /\ build_info.iteration = max_iterations
             /\ build_info.status \in {SUCCESS, FAILED}
        /\ ~tests_ran =>
             /\ test_info.status = FAILED
             /\ test_info.passed = 0
             /\ test_info.failed = 0
             /\ test_info.total = 0

C2_Witness ==
    /\ loop_exit = "exhausted"
    /\ max_iterations = 3
    /\ ~tests_ran
    /\ build_info = BuildInfo(FAILED, "install", 3)

C4_PatchCount ==
    /\ Len(patches) <= iteration
    /\ loop_exit = "success" => Len(patches) <= iteration - 1
    /\ loop_exit = "exhausted" => Len(patches) <= max_iterations

C4_Witness ==
    /\ loop_exit = "success"
    /\ iteration = 3
    /\ Len(patches) = 2

\* C8 (as claimed): build_mvp never raises; every run ends with a returned
\* response.
C8_NeverRaises == pc # "raised"

\* C9: a Patch step whose diagnosis holds no word with both '.' and '/'
\* overwrites no file and appends no PatchRecord, and the loop goes on to the
\* next iteration (or leaves the loop as exhausted on the last one); a run
\* whose diagnoses were all of this kind and that never passed ends, and ends
\* exhausted with an empty patch list.
C9_PathlessStep ==
    (pc = "patch" /\ Pathless(error_analysis)) =>
        /\ patches' = patches
        /\ rewrites' = rewrites
        /\ files' = files
        /\ \/ iteration' = iteration + 1 /\ pc' = "install"
           \/ iteration = max_iterations /\ loop_exit' = "exhausted"

C9_PathlessNoOp ==
    /\ [][C9_PathlessStep]_vars
    /\ [](only_pathless => (patches = <<>> /\ rewrites = 0))
    /\ <>(pc = "loop_returned")
    /\ []((pc = "loop_returned" /\ green = 0) =>
            (loop_exit = "exhausted" /\ iteration = max_iterations))

C9_Witness ==
    /\ loop_exit = "exhausted"
    /\ max_iterations = 3
    /\ only_pathless
    /\ patches = <<>>
    /\ stage # "none"

\* Scenario D: pro budget, the test stage failed in iteration 1 (install and
\* build passed) and install, build and test passed in iteration 2
ScenarioD ==
    /\ user_subscription = "pro"
    /\ max_iterations = 15
    /\ green = 2
    /\ stage = "test"

\* C10 (as claimed): Scenario D returns exactly one PatchRecord.
C10_ExactlyOnePatch ==
    ScenarioD => (loop_exit = "success" /\ iteration = 2 /\ Len(patches) = 1)

\* C10 (amended): Scenario D returns success at iteration 2 with at most one
\* PatchRecord: exactly one, stamped with iteration 1, when the Patch step of
\* iteration 1 overwrote a file, and none when that step was a no-op.
C10_ScenarioD ==
    ScenarioD =>
        /\ loop_exit = "success"
        /\ iteration = 2
        /\ build_info = BuildInfo(SUCCESS, "build", 2)
        /\ test_info.status = SUCCESS
        /\ Len(patches) = rewrites
        /\ Len(patches) <= 1
        /\ \A i \in 1..Len(patches) : patches[i].iteration = 1

C10_Witness ==
    /\ ScenarioD
    /\ Len(patches) = 1
    /\ pc = "returned"

\* ------------------------------------------------------------------------
\* Budget of the loop
\* ------------------------------------------------------------------------
\* C11 (as claimed): the fix loop never completes a run in which no iteration
\* was executed and no build record exists; a budget of zero or less is
\* clamped to a positive one or rejected.
C11_ZeroBudgetRejected ==
    pc = "loop_returned" => (iteration >= 1 /\ build_info # NoBuild)

\* ------------------------------------------------------------------------
\* Package detector: extract_packages_from_files of file_parser
\* ------------------------------------------------------------------------
\* An import target is the sequence of its segments between '/' characters:
\* './local' is <<".", "local">> and '@scope/pkg/sub' is
\* <<"@scope", "pkg", "sub">>.
t_react == <<"react">>
t_local == <<".", "local">>
t_axios == <<"axios">>
t_scoped == <<"@scope", "pkg", "sub">>
t_lodash_fp == <<"lodash", "fp">>

\* one statement of a file: an ES6 import or a CommonJS require of a target
Import(target) == [kind |-> "import", target |-> target]
Require(target) == [kind |-> "require", target |-> target]

\* the file contents of the model, as the statements in textual order; '/abs'
\* and '@/lib' split at '/' have an empty and a bare '@' first segment
SourceContents ==
    { <<>>,
      <<Import(t_react), Import(t_local)>>,
      <<Import(t_scoped), Import(t_axios)>>,
      <<Import(t_axios), Require(t_lodash_fp)>>,
      <<Require(t_axios)>>,
      <<Import(t_scoped), Import(<<"@", "lib">>), Require(<<"", "abs">>)>>,
      <<Import(<<"fs", "promises">>), Import(<<"lodash">>),
        Require(t_lodash_fp)>> }

SourcePaths == {"App.jsx", "b.ts", "c.css", "d.js"}

\* re.match(r'.*\.(jsx?|tsx?)$', file_path), on the paths of the model
IsSourcePath(path) == path \in {"App.jsx", "b.ts", "d.js"}

\* position of a path of the model in sorted order
PathRank(path) ==
    CASE path = "App.jsx" -> 1
      [] path = "b.ts" -> 2
      [] path = "c.css" -> 3
      [] path = "d.js" -> 4

\* the files argument: a dict, as its entries in insertion order
DetectorInputs ==
    {fm \in UNION {[1..n -> [path : SourcePaths, content : SourceContents]] :
                      n \in 0..MaxFiles} :
        \A i \in 1..Len(fm) : \A j \in 1..Len(fm) :
            i # j => fm[i].path # fm[j].path}

\* the set packages after the loop over files.items(): group 1 of every match
\* of import_regex and of require_regex in the files that are not skipped
RawTargets(fm) ==
    UNION {{fm[i].content[k].target : k \in 1..Len(fm[i].content)} :
              i \in {j \in 1..Len(fm) : IsSourcePath(fm[j].path)}}

\* the orders in which iterating over a set of strings can yield its members
IterationOrders(S) ==
    {o \in [1..Cardinality(S) -> S] :
        \A i \in 1..Cardinality(S) : \A j \in 1..Cardinality(S) :
            i # j => o[i] # o[j]}

\* the detector with react removed from the built-in names
BuiltinNames_noReact ==
    {"fs", "path", "http", "https", "crypto", "stream", "util", "os", "url",
     "querystring", "child_process", "react-dom"}

BuiltinNames ==
    {"fs", "path", "http", "https", "crypto", "stream", "util", "os", "url",
     "querystring", "child_process", "react", "react-dom"}

\* pkg in builtins: the whole target is one of the names
IsBuiltin(target) == Len(target) = 1 /\ target[1] \in BuiltinNames

\* pkg.startswith('.') or pkg.startswith('/') or pkg.startswith('@/')
IsRelative(target) ==
    \/ target[1] \in {".", ".."}
    \/ target[1] = "" /\ Len(target) > 1
    \/ target[1] = "@" /\ Len(target) > 1

\* pkg.startswith('@'), on the first segments of the model
IsScoped(target) == target[1] \in {"@", "@scope"}

\* a detector that keeps the whole target as the package name
PackageName_whole(target) == target

\* '/'.join(pkg.split('/')[:2]) for a scoped name, pkg.split('/')[0] otherwise
PackageName(target) ==
    IF IsScoped(target)
    THEN SubSeq(target, 1, IF Len(target) < 2 THEN Len(target) ELSE 2)
    ELSE <<target[1]>>

InList(name, list) == \E i \in 1..Len(list) : list[i] = name

\* the loop for pkg in packages, over the targets in the order given
RECURSIVE FilterPackages(_, _, _)
FilterPackages(order, n, filtered_packages) ==
    IF n > Len(order) THEN filtered_packages
    ELSE FilterPackages(order, n + 1,
             IF IsRelative(order[n]) \/ IsBuiltin(order[n])
                    \/ InList(PackageName(order[n]), filtered_packages)
             THEN filtered_packages
             ELSE Append(filtered_packages, PackageName(order[n])))

\* one call: the set is built, then iterated in one of its possible orders
extract_packages_from_files ==
    /\ det_pc = "ready"
    /\ \E order \in IterationOrders(RawTargets(det_files)) :
         det_packages' = FilterPackages(order, 1, <<>>)
    /\ det_pc' = "done"
    /\ UNCHANGED det_files
    /\ UNCHANGED <<buildVars, streamVars, agentVars, parseVars, providerVars>>

InitDetect ==
    /\ BuildIdle
    /\ StreamIdle
    /\ AgentIdle
    /\ ParseIdle
    /\ ProviderIdle
    /\ det_pc = "ready"
    /\ det_files \in DetectorInputs
    /\ det_packages = <<>>

NextDetect == extract_packages_from_files

SpecDetect == InitDetect /\ [][NextDetect]_vars

\* ------------------------------------------------------------------------
\* Properties of the package detector
\* ------------------------------------------------------------------------
\* the file set of Scenario B: its source files import 'react' and './local'
\* and nothing else
ScenarioB ==
    /\ RawTargets(det_files) = {t_react, t_local}
    /\ \E i \in 1..Len(det_files) :
         /\ IsSourcePath(det_files[i].path)
         /\ det_files[i].content = <<Import(t_react), Import(t_local)>>

\* C15 (as claimed): for the file set of Scenario B the detector returns
\* exactly the list ["react"].
C15_ScenarioBReact ==
    (det_pc = "done" /\ ScenarioB) => det_packages = <<t_react>>

\* C15 (amended): for the file set of Scenario B the detector returns the empty
\* list: './local' is relative and 'react' is one of the built-in names.
C15_ScenarioBEmpty ==
    (det_pc = "done" /\ ScenarioB) => det_packages = <<>>

C15_Witness == det_pc = "done" /\ ScenarioB /\ Len(det_files) = 2

\* the entries of fm in the order of their sorted paths
RECURSIVE SortedByPath(_)
SortedByPath(fm) ==
    IF fm = <<>> THEN <<>>
    ELSE LET m == CHOOSE i \in 1..Len(fm) :
                      \A j \in 1..Len(fm) :
                          PathRank(fm[i].path) <= PathRank(fm[j].path)
         IN <<fm[m]>> \o SortedByPath(SubSeq(fm, 1, m - 1)
                                        \o SubSeq(fm, m + 1, Len(fm)))

\* the targets of the source files of fm in order of appearance
RECURSIVE TargetsInOrder(_)
TargetsInOrder(fm) ==
    IF fm = <<>> THEN <<>>
    ELSE (IF IsSourcePath(Head(fm).path)
          THEN [k \in 1..Len(Head(fm).content) |-> Head(fm).content[k].target]
          ELSE <<>>) \o TargetsInOrder(Tail(fm))

\* the de-duplicated package names by first appearance across the files taken
\* in path-sorted order
FirstAppearance(fm) == FilterPackages(TargetsInOrder(SortedByPath(fm)), 1, <<>>)

\* C16 (as claimed): the list returned is de-duplicated and ordered by first
\* appearance of each package across the files processed in path-sorted order,
\* whatever the insertion order of the input map, so that two runs over the
\* same file set return the same list.
C16_FirstAppearanceOrder ==
    det_pc = "done" => det_packages = FirstAppearance(det_files)

\* ------------------------------------------------------------------------
\* Sandbox calls: MVPBuilderAgent and E2BSandboxClient
\* ------------------------------------------------------------------------
\* Every call sends its request and suspends until the reply arrives; other
\* callers of the same agent run in between.  The API key is configured.
Callers == {1, 2}

FileEntry(path, content) == [path |-> path, content |-> content]

\* the files arguments of update_sandbox_files, in insertion order
UpdateMaps ==
    { <<>>,
      <<FileEntry("a.js", "v1")>>,
      <<FileEntry("a.js", "v1"), FileEntry("b.yml", "v1")>>,
      <<FileEntry("b.yml", "v1"), FileEntry("a.js", "v1")>> }

\* the files arguments of detect_and_install_packages
InstallInputs ==
    { <<>>,
      <<[path |-> "App.jsx", content |-> <<Import(t_react), Import(t_local)>>]>>,
      <<[path |-> "b.ts", content |-> <<Import(t_axios)>>]>> }

\* a caller that has made no call yet
NoCall ==
    [op |-> "none", phase |-> "idle", sandbox_id |-> 0, files |-> <<>>,
     idx |-> 0, attempted |-> {}, result |-> "none"]

\* a call of op on sandbox id whose request has just been sent
Sent(op, id, fm) ==
    [op |-> op, phase |-> "awaiting", sandbox_id |-> id, files |-> fm,
     idx |-> 0, attempted |-> {}, result |-> "none"]

\* the call of caller c has returned (or raised) with result r; its locals
\* are gone
Returned(c, r) == [NoCall EXCEPT !.op = calls[c].op, !.result = r]

\* dict[path] = content
Put(dict, path, content) ==
    {e \in dict : e.path # path} \cup {FileEntry(path, content)}

RECURSIVE PutAll(_, _)
PutAll(dict, fm) ==
    IF fm = <<>> THEN dict
    ELSE PutAll(Put(dict, Head(fm).path, Head(fm).content), Tail(fm))

Without(f, id) == [i \in DOMAIN f \ {id} |-> f[i]]

\* create_sandbox up to the POST to /v2/sandboxes
create_sandbox_post(c) ==
    /\ calls[c].phase = "idle"
    /\ creates_issued < MaxCreates
    /\ creates_issued' = creates_issued + 1
    /\ calls' = [calls EXCEPT ![c] = Sent("create", 0, <<>>)]
    /\ UNCHANGED <<active_sandboxes, sandboxes_created>>
    /\ UNCHANGED <<buildVars, streamVars, detectVars, parseVars,
                   providerVars>>

\* create_sandbox from the reply on: the new sandbox is tracked and returned,
\* or the error is logged and raised
create_sandbox_reply(c) ==
    /\ calls[c].phase = "awaiting"
    /\ calls[c].op = "create"
    /\ \E ok \in BOOLEAN :
         IF ok
         THEN LET id == sandboxes_created + 1 IN
              /\ sandboxes_created' = id
              /\ active_sandboxes' = active_sandboxes @@ (id :> {})
              /\ calls' = [calls EXCEPT ![c] = Returned(c, "created")]
         ELSE /\ calls' = [calls EXCEPT ![c] = Returned(c, "raised")]
              /\ UNCHANGED <<active_sandboxes, sandboxes_created>>
    /\ UNCHANGED creates_issued
    /\ UNCHANGED <<buildVars, streamVars, detectVars, parseVars,
                   providerVars>>

\* the end of update_sandbox_files after the loop: the local record of a
\* tracked sandbox is updated and True returned
UpdateDone(c, id, fm) ==
    /\ active_sandboxes' =
           IF id \in DOMAIN active_sandboxes
           THEN [active_sandboxes EXCEPT ![id] = PutAll(@, fm)]
           ELSE active_sandboxes
    /\ calls' = [calls EXCEPT ![c] =
                    [NoCall EXCEPT !.op = "update", !.result = "true"]]

\* update_sandbox_files up to the POST of the first file; an empty map goes
\* straight to the end
update_sandbox_files_post(c) ==
    /\ calls[c].phase = "idle"
    /\ \E id \in 1..sandboxes_created, fm \in UpdateMaps :
         IF fm = <<>>
         THEN UpdateDone(c, id, fm)
         ELSE /\ calls' = [calls EXCEPT ![c] =
                              [Sent("update", id, fm) EXCEPT
                                  !.idx = 1, !.attempted = {fm[1].path}]]
              /\ UNCHANGED active_sandboxes
    /\ UNCHANGED <<creates_issued, sandboxes_created>>
    /\ UNCHANGED <<buildVars, streamVars, detectVars, parseVars,
                   providerVars>>

\* the reply to the POST of one file: a response that is not ok, or an
\* exception, returns False at once; otherwise the next file is posted and,
\* after the last one, the call ends
UpdateReply(c, ok) ==
    LET id == calls[c].sandbox_id
        fm == calls[c].files
        i == calls[c].idx
    IN IF ~ok
       THEN /\ calls' = [calls EXCEPT ![c] = Returned(c, "false")]
            /\ UNCHANGED active_sandboxes
       ELSE IF i < Len(fm)
            THEN /\ calls' = [calls EXCEPT ![c] =
                                 [@ EXCEPT !.idx = i + 1,
                                           !.attempted = @ \cup {fm[i + 1].path}]]
                 /\ UNCHANGED active_sandboxes
            ELSE UpdateDone(c, id, fm)

update_sandbox_files_reply(c) ==
    /\ calls[c].phase = "awaiting"
    /\ calls[c].op = "update"
    /\ \E ok \in BOOLEAN : UpdateReply(c, ok)
    /\ UNCHANGED <<creates_issued, sandboxes_created>>
    /\ UNCHANGED <<buildVars, streamVars, detectVars, parseVars,
                   providerVars>>

\* detect_and_install_packages: without packages it returns at once, otherwise
\* the npm install command is posted to /commands
detect_and_install_packages_post(c) ==
    /\ calls[c].phase = "idle"
    /\ \E id \in 1..sandboxes_created, fm \in InstallInputs :
       \E order \in IterationOrders(RawTargets(fm)) :
         LET packages == FilterPackages(order, 1, <<>>) IN
         calls' = [calls EXCEPT ![c] =
                      IF packages = <<>>
                      THEN [NoCall EXCEPT !.op = "install", !.result = "true"]
                      ELSE Sent("install", id, packages)]
    /\ UNCHANGED <<active_sandboxes, creates_issued, sandboxes_created>>
    /\ UNCHANGED <<buildVars, streamVars, detectVars, parseVars,
                   providerVars>>

\* the reply to the install command: success, or success = False for a
\* response that is not ok and for an exception
detect_and_install_packages_reply(c) ==
    /\ calls[c].phase = "awaiting"
    /\ calls[c].op = "install"
    /\ \E ok \in BOOLEAN :
         calls' = [calls EXCEPT ![c] =
                      Returned(c, IF ok THEN "true" ELSE "false")]
    /\ UNCHANGED <<active_sandboxes, creates_issued, sandboxes_created>>
    /\ UNCHANGED <<buildVars, streamVars, detectVars, parseVars,
                   providerVars>>

\* E2BSandboxClient.execute_command up to the POST to /commands
execute_command_post(c) ==
    /\ calls[c].phase = "idle"
    /\ \E id \in 1..sandboxes_created :
         calls' = [calls EXCEPT ![c] = Sent("execute", id, <<>>)]
    /\ UNCHANGED <<active_sandboxes, creates_issued, sandboxes_created>>
    /\ UNCHANGED <<buildVars, streamVars, detectVars, parseVars,
                   providerVars>>

\* the reply to the command: the JSON body, or the error logged and raised
execute_command_reply(c) ==
    /\ calls[c].phase = "awaiting"
    /\ calls[c].op = "execute"
    /\ \E ok \in BOOLEAN :
         calls' = [calls EXCEPT ![c] =
                      Returned(c, IF ok THEN "returned" ELSE "raised")]
    /\ UNCHANGED <<active_sandboxes, creates_issued, sandboxes_created>>
    /\ UNCHANGED <<buildVars, streamVars, detectVars, parseVars,
                   providerVars>>

\* cleanup_sandbox up to the DELETE of the sandbox
cleanup_sandbox_delete(c) ==
    /\ calls[c].phase = "idle"
    /\ \E id \in 1..sandboxes_created :
         calls' = [calls EXCEPT ![c] = Sent("cleanup", id, <<>>)]
    /\ UNCHANGED <<active_sandboxes, creates_issued, sandboxes_created>>
    /\ UNCHANGED <<buildVars, streamVars, detectVars, parseVars,
                   providerVars>>

\* the reply to the DELETE: any response removes the sandbox from the local
\* tracking and response.ok is returned; an exception returns False
cleanup_sandbox_reply(c) ==
    /\ calls[c].phase = "awaiting"
    /\ calls[c].op = "cleanup"
    /\ \E outcome \in {"ok", "not_ok", "raised"} :
         /\ active_sandboxes' =
                IF outcome # "raised"
                THEN Without(active_sandboxes, calls[c].sandbox_id)
                ELSE active_sandboxes
         /\ calls' = [calls EXCEPT ![c] =
                         Returned(c, IF outcome = "ok" THEN "true" ELSE "false")]
    /\ UNCHANGED <<creates_issued, sandboxes_created>>
    /\ UNCHANGED <<buildVars, streamVars, detectVars, parseVars,
                   providerVars>>

InitAgent ==
    /\ BuildIdle
    /\ StreamIdle
    /\ DetectIdle
    /\ ParseIdle
    /\ ProviderIdle
    /\ calls = [c \in Callers |-> NoCall]
    /\ active_sandboxes = <<>>
    /\ creates_issued = 0
    /\ sandboxes_created = 0

NextAgent ==
    \E c \in Callers :
        \/ create_sandbox_post(c)
        \/ create_sandbox_reply(c)
        \/ update_sandbox_files_post(c)
        \/ update_sandbox_files_reply(c)
        \/ detect_and_install_packages_post(c)
        \/ detect_and_install_packages_reply(c)
        \/ execute_command_post(c)
        \/ execute_command_reply(c)
        \/ cleanup_sandbox_delete(c)
        \/ cleanup_sandbox_reply(c)

SpecAgent == InitAgent /\ [][NextAgent]_vars

\* ------------------------------------------------------------------------
\* Properties of the sandbox calls
\* ------------------------------------------------------------------------
\* C12 (as claimed): a create request is never issued to the provider while a
\* sandbox session is already tracked as active.
C12_CreateIdempotent ==
    [][creates_issued' > creates_issued => DOMAIN active_sandboxes = {}]_vars

PathsOf(fm) == {fm[i].path : i \in 1..Len(fm)}

\* caller c returns from update_sandbox_files in this step
UpdateReturns(c) ==
    /\ calls[c].op = "update"
    /\ calls[c].phase = "awaiting"
    /\ calls'[c].phase = "idle"

\* C13 (as claimed): when update_sandbox_files returns, the push of every
\* file of the map has been attempted, also after the push of some file has
\* failed, and the result is False exactly when a push failed.
C13_EveryFileAttempted ==
    [][\A c \in Callers :
         UpdateReturns(c) =>
             /\ calls[c].attempted = PathsOf(calls[c].files)
             /\ calls'[c].result \in {"true", "false"}]_vars

\* the commands: package install, file update and execute
CommandOps == {"install", "update", "execute"}

\* the callers whose command on sandbox id is sent and not yet answered
Outstanding(id) ==
    {c \in Callers : /\ calls[c].phase = "awaiting"
                     /\ calls[c].op \in CommandOps
                     /\ calls[c].sandbox_id = id}

\* C14 (as claimed): at most one remote command is outstanding per sandbox
\* at any time, whatever the interleaving of the callers.
C14_OneCommandPerSandbox ==
    \A id \in 1..sandboxes_created : Cardinality(Outstanding(id)) <= 1

\* ------------------------------------------------------------------------
\* _parse_generated_code of MVPBuilderAgent
\* ------------------------------------------------------------------------
\* the contents a span of the model may hold
SpanContents == {<<>>, <<"x">>, <<BLANK, "y", BLANK>>}

\* the symbols of a fenced code block: the fence of three backticks (written
\* with tildes here), the comment sign before the path and the end of the line
FENCE == "~~~"

\* the first line of a fenced block annotated with a file path
FenceHead(path) == <<FENCE, "// ", path, "EOL">>

\* a fenced code block annotated with a file path
FenceBlock(path, body) == FenceHead(path) \o body \o <<FENCE>>

\* the pieces of a generated text: whole spans, whole fenced blocks, and the
\* pieces that make a text malformed
ParsePieces ==
    {OpenMarker(p) \o body \o CloseMarker : p \in Paths, body \in SpanContents}
        \cup {FenceBlock("a.js", body) : body \in {<<"x">>, <<"z">>}}
        \cup {CloseMarker, OpenMarker("a.js"), <<"x">>}

\* the texts of the model: up to MaxSpans pieces.  Every fence in them opens
\* or closes a block of a.js, so group 1 of code_block_regex is the one
\* symbol of the path.
GeneratedTexts ==
    {Flatten(ts) : ts \in UNION {[1..n -> ParsePieces] : n \in 0..MaxSpans}}

CloseAt(text, k) ==
    k + 1 <= Len(text) /\ text[k] = CLOSE_LT /\ text[k + 1] = CLOSE_GT

\* file_regex = <file path="([^"]+)">([\s\S]*?)</file> matches at index i
SpanAt(text, i) ==
    MatchesAt(text, i) /\ \E k \in (i + 3)..Len(text) : CloseAt(text, k)

\* the leftmost match at or after from
NextSpan(text, from) ==
    CHOOSE i \in from..Len(text) :
        SpanAt(text, i) /\ \A h \in from..(i - 1) : ~SpanAt(text, h)

\* the lazy group 2 ends at the first close marker after the open marker
SpanEnd(text, i) ==
    CHOOSE k \in (i + 3)..Len(text) :
        CloseAt(text, k) /\ \A h \in (i + 3)..(k - 1) : ~CloseAt(text, h)

\* a dict assignment that keeps the value of a key already present
Assign_keepFirst(dict, path, content) ==
    IF \E e \in dict : e.path = path THEN dict
    ELSE dict \cup {FileEntry(path, Strip(content))}

\* files[path.strip()] = content.strip(); the paths of the model hold no
\* whitespace
Assign(dict, path, content) == Put(dict, path, Strip(content))

\* the loop over re.finditer(file_regex, code), from index from on
RECURSIVE ParseFrom(_, _, _)
ParseFrom(text, from, dict) ==
    IF \E i \in from..Len(text) : SpanAt(text, i)
    THEN LET i == NextSpan(text, from)
             k == SpanEnd(text, i)
         IN ParseFrom(text, k + 2,
                      Assign(dict, text[i + 1], SubSeq(text, i + 3, k - 1)))
    ELSE dict

\* code_block_regex matches at index i: fence, optional comment sign, a path
\* ending in one of the extensions, end of line, and a closing fence later
FenceAt(text, i) ==
    /\ i + 3 <= Len(text)
    /\ text[i + 2] \in Paths
    /\ ExtOf(text[i + 2]) \in {"ts", "tsx", "js", "jsx", "html", "css"}
    /\ SubSeq(text, i, i + 3) = FenceHead(text[i + 2])
    /\ \E k \in (i + 4)..Len(text) : text[k] = FENCE

\* the leftmost match at or after from
NextFence(text, from) ==
    CHOOSE i \in from..Len(text) :
        FenceAt(text, i) /\ \A h \in from..(i - 1) : ~FenceAt(text, h)

\* the lazy group 2 ends at the first fence after the end of the line
FenceEnd(text, i) ==
    CHOOSE k \in (i + 4)..Len(text) :
        text[k] = FENCE /\ \A h \in (i + 4)..(k - 1) : text[h] # FENCE

\* an assignment that also replaces the content of a path already present
AssignIfAbsent_override(dict, path, content) ==
    Put(dict, path, Strip(content))

\* if path not in files: files[path] = content.strip()
AssignIfAbsent(dict, path, content) ==
    IF \E e \in dict : e.path = path THEN dict
    ELSE dict \cup {FileEntry(path, Strip(content))}

\* the loop over re.finditer(code_block_regex, code), from index from on
RECURSIVE FallbackFrom(_, _, _)
FallbackFrom(text, from, dict) ==
    IF \E i \in from..Len(text) : FenceAt(text, i)
    THEN LET i == NextFence(text, from)
             k == FenceEnd(text, i)
         IN FallbackFrom(text, k + 1,
                         AssignIfAbsent(dict, text[i + 2],
                                        SubSeq(text, i + 4, k - 1)))
    ELSE dict

parse_generated_code ==
    /\ parse_pc = "ready"
    /\ parsed_files' = FallbackFrom(generated_code, 1,
                                    ParseFrom(generated_code, 1, {}))
    /\ parse_pc' = "done"
    /\ UNCHANGED generated_code
    /\ UNCHANGED <<buildVars, streamVars, detectVars, agentVars,
                   providerVars>>

InitParse ==
    /\ BuildIdle
    /\ StreamIdle
    /\ DetectIdle
    /\ AgentIdle
    /\ ProviderIdle
    /\ parse_pc = "ready"
    /\ generated_code \in GeneratedTexts
    /\ parsed_files = {}

NextParse == parse_generated_code

SpecParse == InitParse /\ [][NextParse]_vars

\* ------------------------------------------------------------------------
\* Properties of _parse_generated_code
\* ------------------------------------------------------------------------
\* the spans of text in source order, each with its path and trimmed content
RECURSIVE SpansFrom(_, _)
SpansFrom(text, from) ==
    IF \E i \in from..Len(text) : SpanAt(text, i)
    THEN LET i == NextSpan(text, from)
             k == SpanEnd(text, i)
         IN <<FileEntry(text[i + 1], Strip(SubSeq(text, i + 3, k - 1)))>>
                \o SpansFrom(text, k + 2)
    ELSE <<>>

\* the last span of path p among spans
LastSpanOf(spans, p) ==
    spans[CHOOSE n \in 1..Len(spans) :
              /\ spans[n].path = p
              /\ \A m \in (n + 1)..Len(spans) : spans[m].path # p]

C18_ZipStep ==
    pc = "loop_returned" =>
        /\ pc' = "deploy"
        /\ UNCHANGED <<build_info, test_info, patches>>

\* after a failed packaging the pipeline goes on to its return with the
\* records of the loop and the empty artifact reference
C18_AfterFailedZip ==
    (pc \in {"deploy", "respond"} /\ artifact_zip = "") =>
        /\ pc' \in {"respond", "returned"}
        /\ UNCHANGED <<build_info, test_info, patches, artifact_zip>>

\* C18: an I/O failure while packaging aborts packaging only: build_mvp still
\* returns, with the build record, the test record and the patch list of the
\* fix loop unchanged and an empty artifact reference.
C18_ZipFailureOnlyLosesArtifact ==
    [][C18_ZipStep /\ C18_AfterFailedZip]_vars

\* build_mvp has returned after a failed packaging, with a patch in its list
C18_Witness ==
    /\ pc = "returned"
    /\ artifact_zip = ""
    /\ Len(patches) >= 1
    /\ build_info # NoBuild

\* ------------------------------------------------------------------------
\* Order of the stages
\* ------------------------------------------------------------------------
\* the build record is the one of stage st of the current iteration
RecordOf(st) == build_info.stage = st /\ build_info.iteration = iteration

\* build runs only after this iteration's install succeeded, test only after
\* this iteration's build succeeded, diagnosis and patch only in an iteration
\* whose last stage failed
C19_Gated ==
    /\ pc = "build" => RecordOf("install") /\ build_info.status = SUCCESS
    /\ pc = "test" => RecordOf("build") /\ build_info.status = SUCCESS
    /\ (pc \in {"diagnose", "patch"} /\ stage \in {"install", "build"}) =>
           RecordOf(stage) /\ build_info.status = FAILED
    /\ (pc \in {"diagnose", "patch"} /\ stage = "test") =>
           RecordOf("build") /\ test_info.status = FAILED

\* the steps of one iteration follow each other in the order install, build,
\* test; a failed stage is followed by the diagnosis, the diagnosis by the
\* patch, and the patch by the next iteration or the end of the loop
C19_Step ==
    /\ pc = "install" => pc' \in {"build", "diagnose"} /\ iteration' = iteration
    /\ pc = "build" => pc' \in {"test", "diagnose"} /\ iteration' = iteration
    /\ pc = "test" => pc' \in {"loop_returned", "diagnose"}
                        /\ iteration' = iteration
    /\ pc = "diagnose" => pc' = "patch" /\ iteration' = iteration
    /\ pc = "patch" => \/ pc' = "install" /\ iteration' = iteration + 1
                       \/ pc' = "loop_returned" /\ iteration' = iteration
    /\ pc' = "diagnose" => build_info'.status = FAILED
                              \/ test_info'.status = FAILED

\* C19: within every iteration the stages run in the order install, build,
\* test and are gated by the success of the stage before; after a failed
\* stage come Diagnose, then Patch, then the next iteration, and no later
\* stage of the current iteration.
C19_StagesInOrder == []C19_Gated /\ [][C19_Step]_vars

\* the second iteration is diagnosing its failed build
C19_Witness ==
    /\ pc = "diagnose"
    /\ iteration = 2
    /\ stage = "build"
    /\ build_info = BuildInfo(FAILED, "build", 2)

\* Diagnose is entered from a stage that has just failed, is followed by
\* Patch, and Patch ends the iteration
C20_Step ==
    /\ pc' = "diagnose" =>
           /\ pc \in {"install", "build", "test"}
           /\ stage' = pc
           /\ IF pc = "test" THEN test_info'.status = FAILED
                             ELSE build_info'.status = FAILED
    /\ pc' = "patch" => pc = "diagnose" /\ iteration' = iteration
    /\ pc = "patch" => pc' \notin {"diagnose", "patch"}
                         /\ (iteration' = iteration + 1 \/ pc' = "loop_returned")

\* a run whose first iteration passed every stage has made no diagnosis call
\* and no patch call
C20_CleanRun ==
    (pc = "loop_returned" /\ loop_exit = "success" /\ iteration = 1) =>
        /\ stage = "none"
        /\ error_analysis = NoText
        /\ patches = <<>>
        /\ rewrites = 0

\* C20: Diagnose and Patch are invoked only after a failed stage, at most once
\* per iteration; a run that succeeds in iteration 1 invokes neither.
C20_FixOnlyAfterFailure == []C20_CleanRun /\ [][C20_Step]_vars

\* a loop of budget 1 has returned success from its first iteration, with
\* tests that ran
C20_Witness ==
    /\ pc = "loop_returned"
    /\ loop_exit = "success"
    /\ max_iterations = 1
    /\ iteration = 1
    /\ test_info.status = SUCCESS
    /\ test_info.passed = 1

\* ------------------------------------------------------------------------
\* Target of the patch
\* ------------------------------------------------------------------------
\* the lines of a diagnosis that are scanned and hold a path-like word
MatchingLines(analysis) ==
    {l \in 1..Len(analysis) :
        /\ LineSelected(analysis[l])
        /\ \E w \in 1..Len(analysis[l]) : PathLike(analysis[l][w])}

\* the earliest path-like word of the scanned lines, NoFile without one
EarliestToken(analysis) ==
    IF MatchingLines(analysis) = {} THEN NoFile
    ELSE LET l == CHOOSE m \in MatchingLines(analysis) :
                      \A n \in MatchingLines(analysis) : m <= n
         IN ScanWords(analysis[l], NoFile)

\* C21 (as claimed): the file a patch rewrites is the one named by the
\* earliest path-like token of the diagnosis, also when several lines hold
\* path-like tokens.
C21_EarliestTokenIsTarget ==
    [][(pc = "patch" /\ Len(patches') > Len(patches)) =>
           patches'[Len(patches')].file = EarliestToken(error_analysis)]_vars

\* ------------------------------------------------------------------------
\* The patch list as an audit trail
\* ------------------------------------------------------------------------
C22_Ordered ==
    /\ \A i \in 1..Len(patches) : \A j \in 1..Len(patches) :
           i < j => patches[i].iteration < patches[j].iteration
    /\ \A i \in 1..Len(patches) : patches[i].iteration \in 1..max_iterations
    /\ Len(patches) = rewrites

\* the list changes only by an append made by the patch step of the current
\* iteration, together with the overwrite of a file
C22_Step ==
    patches' # patches =>
        /\ pc = "patch"
        /\ Len(patches') = Len(patches) + 1
        /\ SubSeq(patches', 1, Len(patches)) = patches
        /\ patches'[Len(patches')].iteration = iteration
        /\ patches'[Len(patches')].file \in files
        /\ rewrites' = rewrites + 1

\* C22: the patch list is append-only, its iteration numbers are strictly
\* increasing and lie in 1..max_iterations, and a record is appended only in
\* an iteration in which a file was overwritten.
C22_AuditTrail == []C22_Ordered /\ [][C22_Step]_vars

\* a run has ended with two patch records
C22_Witness == pc = "loop_returned" /\ Len(patches) = 2

\* ------------------------------------------------------------------------
\* Completion of a file by the streaming extractor
\* ------------------------------------------------------------------------
\* the stream of Scenario A, "x" standing for the text console.log(1)
ScenarioA == stream = OpenMarker("a.js") \o <<"x">> \o CloseMarker

\* the last event of a file handed to the sandbox
LastPushed == CHOOSE i \in PushedIdx : \A k \in PushedIdx : k <= i

LanguageOfFile(ext) ==
    CASE ext \in {"js", "jsx"} -> "javascript"
      [] ext \in {"ts", "tsx"} -> "typescript"
      [] ext = "py" -> "python"
      [] ext = "html" -> "html"
      [] ext = "css" -> "css"
      [] ext = "json" -> "json"
      [] ext = "md" -> "markdown"
      [] ext \in {"yml", "yaml"} -> "yaml"
      [] OTHER -> "plaintext"

RECURSIVE FencesFrom(_, _)
FencesFrom(text, from) ==
    IF \E i \in from..Len(text) : FenceAt(text, i)
    THEN LET i == NextFence(text, from)
             k == FenceEnd(text, i)
         IN <<FileEntry(text[i + 2], Strip(SubSeq(text, i + 4, k - 1)))>>
                \o FencesFrom(text, k + 1)
    ELSE <<>>

HasPath(list, p) == \E n \in 1..Len(list) : list[n].path = p

\* C25: a fenced block contributes a file only for a path that no tagged span
\* of the text names; a path produced by both grammars keeps the content of
\* its tagged span, wherever the fenced block stands.
C25_PrimaryTakesPrecedence ==
    parse_pc = "done" =>
        LET spans == SpansFrom(generated_code, 1)
            fences == FencesFrom(generated_code, 1)
        IN \A e \in parsed_files :
               /\ HasPath(spans, e.path) => e = LastSpanOf(spans, e.path)
               /\ ~HasPath(spans, e.path) =>
                      /\ HasPath(fences, e.path)
                      /\ \E n \in 1..Len(fences) : e = fences[n]

\* a.js was produced by a fenced block and, after it, by a tagged span of
\* different content
C25_Witness ==
    /\ parse_pc = "done"
    /\ generated_code = FenceBlock("a.js", <<"z">>)
                          \o OpenMarker("a.js") \o <<"x">> \o CloseMarker
    /\ parsed_files = {FileEntry("a.js", <<"x">>)}

\* ------------------------------------------------------------------------
\* What the package detector returns
\* ------------------------------------------------------------------------
\* the targets of the statements of the files whose path ends in .js, .jsx,
\* .ts or .tsx
C26_SourceTargets ==
    {t \in {t_react, t_local, t_axios, t_scoped, t_lodash_fp, <<"lodash">>,
            <<"", "abs">>, <<"@", "lib">>, <<"fs", "promises">>} :
        \E i \in 1..Len(det_files) :
            /\ det_files[i].path \in {"App.jsx", "b.ts", "d.js"}
            /\ \E k \in 1..Len(det_files[i].content) :
                   det_files[i].content[k].target = t}

\* the target starts with '.', '/' or '@/', or is a name of the built-in list
C26_Excluded(t) ==
    \/ t \in {t_local, <<"", "abs">>, <<"@", "lib">>}
    \/ t = t_react

\* @scope/pkg/sub gives @scope/pkg, any other target its first segment
C26_Collapsed(t) ==
    IF t = t_scoped THEN <<"@scope", "pkg">> ELSE <<t[1]>>

\* C26: the detector returns, each once, exactly the collapsed names of the
\* targets of the source-code files that do not start with '.', '/' or '@/'
\* and are not on the built-in list.
C26_DetectorOutput ==
    det_pc = "done" =>
        /\ \A i \in 1..Len(det_packages) : \A j \in 1..Len(det_packages) :
               i # j => det_packages[i] # det_packages[j]
        /\ {det_packages[i] : i \in 1..Len(det_packages)}
               = {C26_Collapsed(t) :
                     t \in {u \in C26_SourceTargets : ~C26_Excluded(u)}}

\* a stylesheet with imports is skipped, and of a source file with a scoped
\* target, an '@/' target and a '/' target only the scoped package remains
C26_Witness ==
    /\ det_pc = "done"
    /\ det_files
           = <<[path |-> "c.css",
                content |-> <<Import(t_axios), Require(t_lodash_fp)>>],
               [path |-> "App.jsx",
                content |-> <<Import(t_scoped), Import(<<"@", "lib">>),
                              Require(<<"", "abs">>)>>]>>
    /\ det_packages = << <<"@scope", "pkg">> >>

\* ------------------------------------------------------------------------
\* The iteration described by the records the loop returns
\* ------------------------------------------------------------------------
\* C27: when the loop returns a test record that a test stage produced, that
\* stage ran in the iteration that produced the returned build record.
C27_SameIteration ==
    (pc = "loop_returned" /\ test_iteration # 0) =>
        test_iteration = build_info.iteration

\* ------------------------------------------------------------------------
\* Success of a workspace without a dependency manifest
\* ------------------------------------------------------------------------
\* C28: the loop returns the success outcome only if some install, build or
\* test command was executed, which takes package.json or requirements.txt;
\* a workspace with neither is not reported as success with a test record of
\* total 0.
C28_SuccessNeedsCommand ==
    (pc = "loop_returned" /\ loop_exit = "success") =>
        (HasPackageJson \/ HasRequirements)

\* ------------------------------------------------------------------------
\* Provider fallback: get_ai_response of MVPBuilderAgent with stream=True
\* ------------------------------------------------------------------------
\* The generator is followed at the points where it can leave the try block:
\* the request, each yield, the end of the response.  A data line without
\* content or with undecodable JSON yields nothing and changes no state.
AIModels == {"deepseek", "groq", "kimi"}

\* except Exception: the nested call for the next provider whose key is set,
\* else raise e; an exception of a nested call leaves every enclosing call,
\* because the nested call is made inside the except block
Fallback ==
    IF ai_model = "deepseek" /\ "groq" \in api_keys
    THEN /\ ai_model' = "groq"
         /\ tried' = Append(tried, "groq")
         /\ ai_pc' = "request"
    ELSE IF ai_model = "groq" /\ "kimi" \in api_keys
    THEN /\ ai_model' = "kimi"
         /\ tried' = Append(tried, "kimi")
         /\ ai_pc' = "request"
    ELSE ai_pc' = "raised" /\ UNCHANGED <<ai_model, tried>>

\* lines 197-245: without an API key ValueError is raised; the POST can fail
\* or be answered with an error status, which raises as well
post_request ==
    /\ ai_pc = "request"
    /\ \E response_ok \in BOOLEAN :
         IF ai_model \in api_keys /\ response_ok
         THEN ai_pc' = "streaming" /\ UNCHANGED <<ai_model, tried>>
         ELSE Fallback
    /\ UNCHANGED <<api_keys, yielded>>
    /\ UNCHANGED <<buildVars, streamVars, detectVars, agentVars, parseVars>>

\* lines 247-258: yield delta['content']; every enclosing call passes the
\* chunk on to the consumer
yield_chunk ==
    /\ ai_pc = "streaming"
    /\ Cardinality({i \in 1..Len(yielded) : yielded[i] = ai_model})
           < MaxChunks
    /\ yielded' = Append(yielded, ai_model)
    /\ UNCHANGED <<ai_pc, ai_model, api_keys, tried>>
    /\ UNCHANGED <<buildVars, streamVars, detectVars, agentVars, parseVars>>

\* lines 251-252 and the end of response.content: the generator, and with it
\* every enclosing one, is exhausted
end_of_response ==
    /\ ai_pc = "streaming"
    /\ ai_pc' = "done"
    /\ UNCHANGED <<ai_model, api_keys, tried, yielded>>
    /\ UNCHANGED <<buildVars, streamVars, detectVars, agentVars, parseVars>>

\* reading response.content raises (connection lost, timeout) inside the try
response_error ==
    /\ ai_pc = "streaming"
    /\ Fallback
    /\ UNCHANGED <<api_keys, yielded>>
    /\ UNCHANGED <<buildVars, streamVars, detectVars, agentVars, parseVars>>

InitProvider ==
    /\ BuildIdle
    /\ StreamIdle
    /\ DetectIdle
    /\ AgentIdle
    /\ ParseIdle
    /\ ai_pc = "request"
    /\ ai_model \in AIModels
    /\ api_keys \in SUBSET AIModels
    /\ tried = <<ai_model>>
    /\ yielded = <<>>

NextProvider ==
    \/ post_request
    \/ yield_chunk
    \/ end_of_response
    \/ response_error

SpecProvider == InitProvider /\ [][NextProvider]_vars

\* C29: the chunks delivered to the consumer of one streaming call all come
\* from the response of one provider.
C29_SingleProvider ==
    \A i \in 1..Len(yielded) : \A j \in 1..Len(yielded) :
        yielded[i] = yielded[j]

\* ------------------------------------------------------------------------
\* Built-in names in the output of the package detector
\* ------------------------------------------------------------------------
\* C30: no element of the list the detector returns is a name of the
\* built-in list, whatever the files are, sub-paths of built-ins included.
C30_NoBuiltinReturned ==
    det_pc = "done" =>
        \A i \in 1..Len(det_packages) :
            ~(Len(det_packages[i]) = 1 /\ det_packages[i][1] \in BuiltinNames)

====
